---------------------------- MODULE Spec2Model ----------------------------
(***************************************************************************)
(* TrialHandler (data/TrialHandler.js): the trial sequence, the cursor     *)
(* that iterates over it, and the snapshots of the cursor.                 *)
(*                                                                         *)
(* JavaScript values that are not numbers are tagged records, so that      *)
(* undefined, null, booleans and objects stay distinct values.  Array      *)
(* indices are 0-based in the source and 1-based in a TLA+ sequence: the   *)
(* counters keep the source's 0-based values and every lookup adds one.    *)
(***************************************************************************)
EXTENDS Integers, Sequences, FiniteSets, TLC

(* ------------------------------ bounds -------------------------------- *)

\* nReps is drawn from 0..MaxReps.
MaxReps == 2

\* At most MaxSnapshots calls of getSnapshot in a run.
MaxSnapshots == 1

\* next() is called at most MaxExtra times beyond the end of the sequence.
MaxExtra == 2

\* The random source yields k / RngSteps for k in 0..RngSteps-1.
RngSteps == 6

(* --------------------------- JavaScript values ------------------------ *)

Undefined == [type |-> "undefined"]

Null == [type |-> "null"]

Bool(b) == [type |-> "boolean", value |-> b]

Obj(f) == [type |-> "object", fields |-> f]

Arr(s) == [type |-> "array", items |-> s]

\* array[index]: undefined outside the array.
At(array, index) ==
    IF index \in 0..(Len(array) - 1) THEN array[index + 1] ELSE Undefined

\* object[key] of an object held as a function from property names: undefined
\* for a property the object does not have.
Get(object, key) ==
    IF key \in DOMAIN object THEN object[key] ELSE Undefined

\* `key in array` for a JavaScript Array: true for the array's indices and for
\* "length", never for the array's elements.
InArray(key, array) ==
    key \in ({ToString(i) : i \in 0..(Len(array) - 1)} \cup {"length"})

(* ------------------------------ inputs -------------------------------- *)

\* Trial records: arbitrary key/value maps.  TrialA has a field named like an
\* array index; TrialB has fields named like two of the handler's counters.
TrialA == Obj(("stim" :> 1) @@ ("0" :> 9))

TrialB == Obj(("stim" :> 2) @@ ("thisTrialN" :> 0) @@ ("thisN" :> 50))

\* The constructor's trialList argument.
TrialInputs == {Undefined, Arr(<<>>), Arr(<<TrialA, TrialB>>)}

\* TrialHandler.Method: FULLRANDOM is the same symbol as FULL_RANDOM.
SEQUENTIAL == "SEQUENTIAL"

RANDOM == "RANDOM"

FULL_RANDOM == "FULL_RANDOM"

Methods == {SEQUENTIAL, RANDOM, FULL_RANDOM}

(* ------------------------------- state -------------------------------- *)

VARIABLES
    trialList,       \* this.trialList: the sequence of trial records
    nReps,           \* this.nReps
    method,          \* this.method
    _trialSequence,  \* this._trialSequence: nReps rows of trial indices
    nStim,           \* this.nStim
    nTotal,          \* this.nTotal
    nRemaining,      \* this.nRemaining
    thisRepN,        \* this.thisRepN
    thisTrialN,      \* this.thisTrialN
    thisN,           \* this.thisN
    thisIndex,       \* this.thisIndex
    ran,             \* this.ran
    order,           \* this.order
    thisTrial,       \* this.thisTrial
    _finished,       \* this._finished
    _snapshots,      \* this._snapshots: the snapshots returned so far
    attrs,           \* the properties fromSnapshot added to the handler
    warnings,        \* the attribute names the logger was warned about
    result,          \* the last call: its name, and what it returned
    calls,           \* history: next() calls behind the cursor's position
    snapCalls,       \* history: `calls` when each snapshot was captured
    captured,        \* history: the handler's fields when each was captured
    overwritten,     \* history: counters whose value stems from a record's field
    snapOverwritten, \* history: the same for each snapshot's counters
    fresh,           \* history: fromSnapshot has not been called
    loop,            \* a forEach call: its position and the callback's arguments
    build,           \* constructions in progress: their inputs, locals and outcome
    _experimentHandler, \* this._experimentHandler, with the pairs it was handed
    mic,             \* a Microphone, its recorders and their events in flight
    iterators        \* the iterators handed out, and what their next() calls yielded

cursor == <<nRemaining, thisRepN, thisTrialN, thisN, thisIndex>>

config == <<trialList, nReps, method, _trialSequence>>

history == <<calls, snapCalls, captured, overwritten, snapOverwritten, fresh>>

vars == <<trialList, nReps, method, _trialSequence, nStim, nTotal, nRemaining,
          thisRepN, thisTrialN, thisN, thisIndex, ran, order, thisTrial,
          _finished, _snapshots, attrs, warnings, result, calls, snapCalls,
          captured, overwritten, snapOverwritten, fresh,
          loop, build, _experimentHandler, mic, iterators>>

\* What no call on the cursor touches.
beside == <<build, _experimentHandler, mic, iterators>>

(* ------------------------- sequence construction ---------------------- *)

\* A _prepareTrialList that leaves an empty array empty.
PrepareTrialListKeepsEmpty(arg) ==
    IF arg.type = "undefined" THEN <<Undefined>> ELSE arg.items

\* A _prepareTrialList that fills an empty array with two undefined entries.
PrepareTrialListFillsTwo(arg) ==
    LET given == IF arg.type = "undefined" THEN Arr(<<Undefined>>) ELSE arg
    IN  IF Len(given.items) = 0 THEN <<Undefined, Undefined>> ELSE given.items

\* _prepareTrialList, after the constructor's default for an undefined
\* argument: an empty array becomes [undefined].
PrepareTrialList(arg) ==
    LET given == IF arg.type = "undefined" THEN Arr(<<Undefined>>) ELSE arg
    IN  IF Len(given.items) = 0 THEN <<Undefined>> ELSE given.items

\* Indices that count the trial list's entries from one.
IndicesFromOne(list) == [i \in 1..Len(list) |-> i]

\* Array.from(this.trialList.keys())
Indices(list) == [i \in 1..Len(list) |-> i - 1]

\* floor(rng() * (i + 1)) for the draw k / RngSteps.
DrawIndex(k, i) == (k * (i + 1)) \div RngSteps

\* The array with the elements at the 0-based indices i and j swapped.
Swap(array, i, j) ==
    [array EXCEPT ![i + 1] = array[j + 1], ![j + 1] = array[i + 1]]

\* util.shuffle(array, rng): Fisher-Yates, i from the last index down to 1,
\* j = floor(rng() * (i + 1)); draws[n] is the n-th number the source yields.
RECURSIVE ShuffleFrom(_, _, _, _)
ShuffleFrom(array, draws, i, n) ==
    IF i < 1 THEN array
    ELSE ShuffleFrom(Swap(array, i, DrawIndex(draws[n], i)), draws, i - 1, n + 1)

shuffle(array, draws) == ShuffleFrom(array, draws, Len(array) - 1, 1)

\* The concatenation of `reps` copies of array.
RECURSIVE Repeat(_, _)
Repeat(array, reps) ==
    IF reps <= 0 THEN <<>> ELSE array \o Repeat(array, reps - 1)

\* array.slice(from, to)
Slice(array, from, to) == SubSeq(array, from + 1, to)

\* How many numbers _prepareSequence draws from the random source.
DrawsNeeded(list, reps, m) ==
    IF m = RANDOM THEN reps * (Len(list) - 1)
    ELSE IF m = FULL_RANDOM /\ reps * Len(list) > 0 THEN reps * Len(list) - 1
    ELSE 0

\* A _prepareSequence whose sequential order is the transposed one: row i
\* holds the i-th trial index throughout.
PrepareSequenceTransposed(list, reps, m, draws) ==
    LET indices == Indices(list)
        perRow == Len(list) - 1
        flat == shuffle(Repeat(indices, reps), draws)
    IN  IF m = SEQUENTIAL THEN
            [i \in 1..reps |-> [j \in 1..Len(list) |-> indices[((i - 1) % Len(list)) + 1]]]
        ELSE IF m = RANDOM THEN
            [i \in 1..reps |->
                shuffle(indices, SubSeq(draws, (i - 1) * perRow + 1, i * perRow))]
        ELSE [i \in 1..reps |->
                Slice(flat, (i - 1) * Len(list), i * Len(list))]

\* _prepareSequence for the three supported methods.
PrepareSequence(list, reps, m, draws) ==
    LET indices == Indices(list)
        perRow == Len(list) - 1
        flat == shuffle(Repeat(indices, reps), draws)
    IN  IF m = SEQUENTIAL THEN [i \in 1..reps |-> indices]
        ELSE IF m = RANDOM THEN
            [i \in 1..reps |->
                shuffle(indices, SubSeq(draws, (i - 1) * perRow + 1, i * perRow))]
        ELSE [i \in 1..reps |->
                Slice(flat, (i - 1) * Len(list), i * Len(list))]

(* ---------------------------- construction ---------------------------- *)

\* What the last call was and how it ended: `arg` is the snapshot (its place
\* in _snapshots) a call took or returned, `done` is the iterator's done flag,
\* `threw` tells that the call raised.
Result(op, arg, done, threw) ==
    [op |-> op, arg |-> arg, done |-> done, threw |-> threw]

\* No forEach call is running.
NoLoop == [pc |-> "idle", from |-> 0, callbacks |-> <<>>]

\* No construction is being followed step by step.
NoBuild == [pc |-> "none"]

\* No Microphone has been constructed.
NoMic == [status |-> "NONE"]

\* No iterator has been asked for.
NoIterators == [made |-> 0, last |-> 0, yields |-> <<>>]

\* The handler the constructor leaves behind, given its arguments and the
\* numbers its shuffles drew.
Constructed(arg, reps, m, draws) ==
    /\ trialList = PrepareTrialList(arg)
    /\ nReps = reps
    /\ method = m
    /\ nStim = Len(trialList)
    /\ nTotal = nReps * nStim
    /\ nRemaining = nTotal
    /\ thisRepN = 0
    /\ thisTrialN = -1
    /\ thisN = -1
    /\ thisIndex = 0
    /\ ran = 0
    /\ order = -1
    /\ _snapshots = <<>>
    /\ _trialSequence = PrepareSequence(trialList, nReps, method, draws)
    /\ _experimentHandler = Null
    /\ thisTrial = Null
    /\ _finished = Bool(FALSE)
    /\ attrs = <<>>
    /\ warnings = {}
    /\ result = Result("constructor", 0, FALSE, FALSE)
    /\ calls = 0
    /\ snapCalls = <<>>
    /\ captured = <<>>
    /\ overwritten = {}
    /\ snapOverwritten = <<>>
    /\ fresh = TRUE

Init ==
    \E arg \in TrialInputs, reps \in 0..MaxReps, m \in Methods :
      \E draws \in [1..DrawsNeeded(PrepareTrialList(arg), reps, m) -> 0..(RngSteps - 1)] :
        /\ Constructed(arg, reps, m, draws)
        /\ loop = NoLoop
        /\ mic = NoMic
        /\ iterators = NoIterators
        /\ build = NoBuild

(* ------------------------------ the cursor ---------------------------- *)

\* A next() that leaves nRemaining alone.
StepKeepsRemaining ==
    LET newRep == thisTrialN + 1 = nStim
    IN  [thisTrialN |-> IF newRep THEN 0 ELSE thisTrialN + 1,
         thisN |-> thisN + 1,
         nRemaining |-> nRemaining,
         thisRepN |-> IF newRep THEN thisRepN + 1 ELSE thisRepN]

\* A next() that does not count the trial that opens a repetition.
StepSkipsCount ==
    LET newRep == thisTrialN + 1 = nStim
    IN  [thisTrialN |-> IF newRep THEN 0 ELSE thisTrialN + 1,
         thisN |-> IF newRep THEN thisN ELSE thisN + 1,
         nRemaining |-> nRemaining - 1,
         thisRepN |-> IF newRep THEN thisRepN + 1 ELSE thisRepN]

\* A next() that goes back to the first column without moving to the next
\* repetition.
StepStaysInRepetition ==
    LET newRep == thisTrialN + 1 = nStim
    IN  [thisTrialN |-> IF newRep THEN 0 ELSE thisTrialN + 1,
         thisN |-> thisN + 1,
         nRemaining |-> nRemaining - 1,
         thisRepN |-> thisRepN]

\* The counters after next()'s increments and its start of a new repetition.
Step ==
    LET newRep == thisTrialN + 1 = nStim
    IN  [thisTrialN |-> IF newRep THEN 0 ELSE thisTrialN + 1,
         thisN |-> thisN + 1,
         nRemaining |-> nRemaining - 1,
         thisRepN |-> IF newRep THEN thisRepN + 1 ELSE thisRepN]

\* A next() that runs the disabled `this.finished = true` of the last trial.
nextSetsFinished ==
    /\ calls < nReps * Len(trialList) + MaxExtra
    /\ thisTrialN' = Step.thisTrialN
    /\ thisN' = Step.thisN
    /\ nRemaining' = Step.nRemaining
    /\ thisRepN' = Step.thisRepN
    /\ IF Step.nRemaining = 0
       THEN /\ _finished' = Bool(TRUE)
            /\ _snapshots' = [i \in 1..Len(_snapshots) |->
                                 ("finished" :> Bool(TRUE)) @@ _snapshots[i]]
       ELSE UNCHANGED <<_finished, _snapshots>>
    /\ IF Step.thisRepN >= nReps
       THEN /\ thisTrial' = Null
            /\ UNCHANGED <<thisIndex, ran, order>>
            /\ result' = Result("next", 0, TRUE, FALSE)
       ELSE /\ thisIndex' = At(At(_trialSequence, Step.thisRepN), Step.thisTrialN)
            /\ thisTrial' = At(trialList, thisIndex')
            /\ ran' = 1
            /\ order' = Step.thisN
            /\ result' = Result("next", 0, FALSE, FALSE)
    /\ calls' = calls + 1
    /\ UNCHANGED <<config, nStim, nTotal, attrs, warnings,
                   snapCalls, captured, overwritten, snapOverwritten, fresh>>

\* [Symbol.iterator]().next(), which next() and forEach call.
\* A next() that reports exhaustion without clearing thisTrial.
nextKeepsTrial ==
    /\ calls < nReps * Len(trialList) + MaxExtra
    /\ thisTrialN' = Step.thisTrialN
    /\ thisN' = Step.thisN
    /\ nRemaining' = Step.nRemaining
    /\ thisRepN' = Step.thisRepN
    /\ IF Step.thisRepN >= nReps
       THEN /\ UNCHANGED <<thisTrial, thisIndex, ran, order>>
            /\ result' = Result("next", 0, TRUE, FALSE)
       ELSE /\ thisIndex' = At(At(_trialSequence, Step.thisRepN), Step.thisTrialN)
            /\ thisTrial' = At(trialList, thisIndex')
            /\ ran' = 1
            /\ order' = Step.thisN
            /\ result' = Result("next", 0, FALSE, FALSE)
    /\ calls' = calls + 1
    /\ UNCHANGED <<config, nStim, nTotal, _finished, _snapshots, attrs, warnings,
                   snapCalls, captured, overwritten, snapOverwritten, fresh>>

next ==
    /\ calls < nReps * Len(trialList) + MaxExtra
    /\ thisTrialN' = Step.thisTrialN
    /\ thisN' = Step.thisN
    /\ nRemaining' = Step.nRemaining
    /\ thisRepN' = Step.thisRepN
    /\ IF Step.thisRepN >= nReps
       THEN /\ thisTrial' = Null
            /\ UNCHANGED <<thisIndex, ran, order>>
            /\ result' = Result("next", 0, TRUE, FALSE)
       ELSE /\ thisIndex' = At(At(_trialSequence, Step.thisRepN), Step.thisTrialN)
            /\ thisTrial' = At(trialList, thisIndex')
            /\ ran' = 1
            /\ order' = Step.thisN
            /\ result' = Result("next", 0, FALSE, FALSE)
    /\ calls' = calls + 1
    /\ UNCHANGED <<config, nStim, nTotal, _finished, _snapshots, attrs, warnings,
                   snapCalls, captured, overwritten, snapOverwritten, fresh>>

(* ------------------------------ snapshots ----------------------------- *)

\* getSnapshot's list of the names a trial attribute may not take.
excludedAttributes ==
    <<"handler", "name", "nStim", "nRemaining", "thisRepN", "thisTrialN",
      "thisN", "thisIndex", "ran", "finished">>

\* The handler's fields that fromSnapshot writes back from the snapshot.
RestoredFields ==
    {"nStim", "nTotal", "nRemaining", "thisRepN", "thisTrialN", "thisN",
     "thisIndex", "ran"}

\* getCurrentTrial()
CurrentTrial == At(trialList, thisIndex)

\* The properties getSnapshot's object literal sets.  getCurrentTrial is the
\* closure over currentIndex; handler, name, getTrial and addData hold none
\* of the cursor's state and are left out.
SnapshotLiteral ==
    [nStim |-> nStim, nTotal |-> nTotal, nRemaining |-> nRemaining,
     thisRepN |-> thisRepN, thisTrialN |-> thisTrialN, thisN |-> thisN,
     thisIndex |-> thisIndex, ran |-> ran, finished |-> _finished,
     getCurrentTrial |-> [type |-> "function", currentIndex |-> thisIndex]]

\* The names `for (attribute in trial)` goes through: none for undefined.
AttributesOf(trial) ==
    IF trial.type = "object" THEN DOMAIN trial.fields ELSE {}

\* The attributes getSnapshot copies: those its exclusion test lets through.
CopiedAttributes(trial) ==
    {a \in AttributesOf(trial) : ~InArray(a, excludedAttributes)}

\* The snapshot getSnapshot builds: each copied attribute is assigned onto the
\* literal, and trialAttributes is assigned inside the loop, so a trial without
\* attributes leaves the snapshot without that property.  trialAttributes is
\* held as the set of the names pushed.
BuildSnapshot ==
    LET trial == CurrentTrial
        copied == CopiedAttributes(trial)
    IN  IF AttributesOf(trial) = {} THEN SnapshotLiteral
        ELSE ("trialAttributes" :> copied)
                 @@ [a \in copied |-> trial.fields[a]]
                 @@ SnapshotLiteral

getSnapshot ==
    /\ Len(_snapshots) < MaxSnapshots
    /\ _snapshots' = Append(_snapshots, BuildSnapshot)
    /\ warnings' = warnings \cup (AttributesOf(CurrentTrial) \ CopiedAttributes(CurrentTrial))
    /\ result' = Result("getSnapshot", Len(_snapshots) + 1, FALSE, FALSE)
    /\ snapCalls' = Append(snapCalls, calls)
    /\ captured' = Append(captured,
            [nStim |-> nStim, nTotal |-> nTotal, nRemaining |-> nRemaining,
             thisRepN |-> thisRepN, thisTrialN |-> thisTrialN, thisN |-> thisN,
             thisIndex |-> thisIndex, ran |-> ran, finished |-> _finished])
    /\ snapOverwritten' = Append(snapOverwritten,
            (CopiedAttributes(CurrentTrial) \cap RestoredFields) \cup overwritten)
    /\ UNCHANGED <<config, nStim, nTotal, cursor, ran, order, thisTrial, _finished,
                   attrs, calls, overwritten, fresh>>

\* A fromSnapshot that assigns snapshot._finished to the snapshot's own
\* `finished` as well.
fromSnapshotWritesSnapshot(i) ==
    LET snapshot == _snapshots[i]
        listed == "trialAttributes" \in DOMAIN snapshot
        trialAttributes == IF listed THEN snapshot.trialAttributes ELSE {}
    IN  /\ nStim' = snapshot.nStim
        /\ nTotal' = snapshot.nTotal
        /\ nRemaining' = snapshot.nRemaining
        /\ thisRepN' = snapshot.thisRepN
        /\ thisTrialN' = snapshot.thisTrialN
        /\ thisN' = snapshot.thisN
        /\ thisIndex' = snapshot.thisIndex
        /\ ran' = snapshot.ran
        /\ _finished' = Get(snapshot, "_finished")
        /\ _snapshots' = [_snapshots EXCEPT
                             ![i] = ("finished" :> Get(snapshot, "_finished")) @@ snapshot]
        /\ thisTrial' = At(trialList, thisIndex')
        /\ attrs' = [a \in trialAttributes \ (RestoredFields \cup {"trialList"}) |->
                        snapshot[a]] @@ attrs
        /\ result' = Result("fromSnapshot", i, FALSE, ~listed)
        /\ calls' = snapCalls[i]
        /\ overwritten' = snapOverwritten[i]
        /\ fresh' = FALSE
        /\ trialList' = IF "trialList" \in trialAttributes
                        THEN snapshot.trialList
                        ELSE trialList
        /\ UNCHANGED <<nReps, method, _trialSequence, order, warnings, snapCalls,
                       captured, snapOverwritten>>

\* TrialHandler.fromSnapshot(snapshot) for the i-th snapshot getSnapshot
\* returned.  Iterating an undefined trialAttributes raises a TypeError after
\* the fields have been written.  The loop over trialAttributes assigns every
\* copied attribute onto the handler: one named like a counter lands in that
\* counter, one named trialList replaces the trial list, one named finished
\* goes through the finished setter, any other becomes a property of its own
\* (attrs).
fromSnapshot(i) ==
    LET snapshot == _snapshots[i]
        listed == "trialAttributes" \in DOMAIN snapshot
        trialAttributes == IF listed THEN snapshot.trialAttributes ELSE {}
    IN  /\ nStim' = snapshot.nStim
        /\ nTotal' = snapshot.nTotal
        /\ nRemaining' = snapshot.nRemaining
        /\ thisRepN' = snapshot.thisRepN
        /\ thisTrialN' = snapshot.thisTrialN
        /\ thisN' = snapshot.thisN
        /\ thisIndex' = snapshot.thisIndex
        /\ ran' = snapshot.ran
        /\ _finished' = IF "finished" \in trialAttributes
                        THEN snapshot.finished
                        ELSE Get(snapshot, "_finished")
        /\ _snapshots' = IF "finished" \in trialAttributes
                         THEN [j \in 1..Len(_snapshots) |->
                                  ("finished" :> snapshot.finished) @@ _snapshots[j]]
                         ELSE _snapshots
        /\ thisTrial' = At(trialList, thisIndex')
        /\ attrs' = [a \in trialAttributes
                             \ (RestoredFields \cup {"trialList", "finished"}) |->
                        snapshot[a]] @@ attrs
        /\ result' = Result("fromSnapshot", i, FALSE, ~listed)
        /\ calls' = snapCalls[i]
        /\ overwritten' = snapOverwritten[i]
        /\ fresh' = FALSE
        /\ trialList' = IF "trialList" \in trialAttributes
                        THEN snapshot.trialList
                        ELSE trialList
        /\ UNCHANGED <<nReps, method, _trialSequence, order, warnings,
                       snapCalls, captured, snapOverwritten>>

\* The setter of `finished`.
setFinished(isFinished) ==
    /\ _finished' = Bool(isFinished)
    /\ _snapshots' = [i \in 1..Len(_snapshots) |->
                         ("finished" :> Bool(isFinished)) @@ _snapshots[i]]
    /\ result' = Result("setFinished", 0, FALSE, FALSE)
    /\ UNCHANGED <<config, nStim, nTotal, cursor, ran, order, thisTrial, attrs,
                   warnings, history>>

Next ==
    \/ next /\ UNCHANGED <<loop, beside>>
    \/ getSnapshot /\ UNCHANGED <<loop, beside>>
    \/ \E i \in 1..Len(_snapshots) : fromSnapshot(i) /\ UNCHANGED <<loop, beside>>
    \/ \E isFinished \in BOOLEAN : setFinished(isFinished) /\ UNCHANGED <<loop, beside>>

Spec == Init /\ [][Next]_vars

(* ------------- trial records with a field named like the trial list ------------- *)

\* A record one of whose fields is called trialList.
TrialC == Obj(("stim" :> 3) @@ ("trialList" :> <<TrialA>>))

FieldInputs == {Arr(<<TrialC>>), Arr(<<TrialA, TrialC>>)}

InitFields ==
    \E arg \in FieldInputs, reps \in 0..MaxReps, m \in Methods :
      \E draws \in [1..DrawsNeeded(PrepareTrialList(arg), reps, m) -> 0..(RngSteps - 1)] :
        /\ Constructed(arg, reps, m, draws)
        /\ loop = NoLoop
        /\ mic = NoMic
        /\ iterators = NoIterators
        /\ build = NoBuild

SpecFields == InitFields /\ [][Next]_vars

(* ------------- trial records with a field named like the finished flag ------------- *)

\* A record one of whose fields is called finished.
TrialD == Obj(("stim" :> 4) @@ ("finished" :> Bool(TRUE)))

FlagInputs == {Arr(<<TrialD>>), Arr(<<TrialA, TrialD>>)}

InitFlag ==
    \E arg \in FlagInputs, reps \in 0..MaxReps, m \in Methods :
      \E draws \in [1..DrawsNeeded(PrepareTrialList(arg), reps, m) -> 0..(RngSteps - 1)] :
        /\ Constructed(arg, reps, m, draws)
        /\ loop = NoLoop
        /\ mic = NoMic
        /\ iterators = NoIterators
        /\ build = NoBuild

SpecFlag == InitFlag /\ [][Next]_vars

(* ------------ the constructor, followed through its random draws ------------ *)

\* Every field of the handler, for the steps that touch none of them.
handler == <<config, nStim, nTotal, cursor, ran, order, thisTrial, _finished,
             _snapshots, attrs, warnings, result, history, _experimentHandler>>

Num(n) == [type |-> "number", value |-> n]

\* The constructor's seed argument.
Seeds == {Undefined, Num(1), Num(2)}

\* The n-th number (from 0) of the stream seedrandom(seed) yields, as the k of
\* k / RngSteps: one fixed stream per seed.
SeededDraw(seed, n) ==
    ((seed.value + n) * (seed.value + n) + seed.value) % RngSteps

\* A method that is none of TrialHandler.Method.
UnknownMethod == "STAIRCASE"

BuildMethods == Methods \cup {UnknownMethod}

\* The constructor's trialList argument: lists of zero to three records.
BuildInputs ==
    TrialInputs \cup {Arr(<<TrialA>>), Arr(<<TrialB, TrialA>>),
                      Arr(<<TrialA, TrialB, TrialA>>)}

\* A call of the constructor before its first statement. `first` keeps what an
\* earlier construction from the same arguments left behind.
NewBuild(arg, reps, m, seed, handlers, first) ==
    [pc |-> "new", arg |-> arg, nReps |-> reps, method |-> m, seed |-> seed,
     handlers |-> handlers, trialList |-> <<>>, drawn |-> 0, array |-> <<>>,
     i |-> 0, _trialSequence |-> Undefined, error |-> Undefined,
     first |-> first]

\* The handler's own variables while only constructions are followed.
NoHandler ==
    /\ trialList = <<Undefined>>
    /\ nReps = 0
    /\ method = SEQUENTIAL
    /\ _trialSequence = <<>>
    /\ nStim = 1
    /\ nTotal = 0
    /\ nRemaining = 0
    /\ thisRepN = 0
    /\ thisTrialN = -1
    /\ thisN = -1
    /\ thisIndex = 0
    /\ ran = 0
    /\ order = -1
    /\ _experimentHandler = Null
    /\ thisTrial = Null
    /\ _finished = Bool(FALSE)
    /\ _snapshots = <<>>
    /\ attrs = <<>>
    /\ warnings = {}
    /\ result = Result("constructor", 0, FALSE, FALSE)
    /\ calls = 0
    /\ snapCalls = <<>>
    /\ captured = <<>>
    /\ overwritten = {}
    /\ snapOverwritten = <<>>
    /\ fresh = TRUE
    /\ loop = NoLoop

\* One or two handlers are constructed, one after the other; two of them only
\* from a defined seed.
InitBuild ==
    /\ NoHandler
    /\ mic = NoMic
    /\ iterators = NoIterators
    /\ \E arg \in BuildInputs, reps \in 0..MaxReps, m \in BuildMethods,
          seed \in Seeds, handlers \in 1..2 :
         /\ seed = Undefined => handlers = 1
         /\ build = NewBuild(arg, reps, m, seed, handlers, Null)

\* A constructor that takes an unknown method for SEQUENTIAL.
constructDefaultsToSequential ==
    /\ build.pc = "new"
    /\ LET list == PrepareTrialList(build.arg)
           indices == Indices(list)
           flatSequence == Repeat(indices, build.nReps)
           seeded == [build EXCEPT !.trialList = list, !.drawn = 0]
       IN build' =
            IF build.method = SEQUENTIAL
            THEN [seeded EXCEPT
                    !.pc = "built",
                    !._trialSequence = Arr([r \in 1..build.nReps |-> indices])]
            ELSE IF build.method = RANDOM
            THEN IF build.nReps > 0
                 THEN [seeded EXCEPT !.pc = "shuffling",
                                     !._trialSequence = Arr(<<>>),
                                     !.array = indices,
                                     !.i = Len(indices) - 1]
                 ELSE [seeded EXCEPT !.pc = "built",
                                     !._trialSequence = Arr(<<>>)]
            ELSE IF build.method = FULL_RANDOM
            THEN [seeded EXCEPT !.pc = "shuffling",
                                !.array = flatSequence,
                                !.i = Len(flatSequence) - 1]
            ELSE [seeded EXCEPT
                    !.pc = "built",
                    !._trialSequence = Arr([r \in 1..build.nReps |-> indices])]
    /\ UNCHANGED <<handler, loop, mic, iterators>>

\* A constructor whose SEQUENTIAL ordering is the transposed one: a row per
\* record, a column per repetition.
constructTransposed ==
    /\ build.pc = "new"
    /\ LET list == PrepareTrialList(build.arg)
           indices == Indices(list)
           flatSequence == Repeat(indices, build.nReps)
           seeded == [build EXCEPT !.trialList = list, !.drawn = 0]
       IN build' =
            IF build.method = SEQUENTIAL
            THEN [seeded EXCEPT
                    !.pc = "built",
                    !._trialSequence =
                        Arr([r \in 1..Len(indices) |->
                               [c \in 1..build.nReps |-> indices[r]]])]
            ELSE IF build.method = RANDOM
            THEN IF build.nReps > 0
                 THEN [seeded EXCEPT !.pc = "shuffling",
                                     !._trialSequence = Arr(<<>>),
                                     !.array = indices,
                                     !.i = Len(indices) - 1]
                 ELSE [seeded EXCEPT !.pc = "built",
                                     !._trialSequence = Arr(<<>>)]
            ELSE IF build.method = FULL_RANDOM
            THEN [seeded EXCEPT !.pc = "shuffling",
                                !.array = flatSequence,
                                !.i = Len(flatSequence) - 1]
            ELSE [seeded EXCEPT
                    !.pc = "threw",
                    !.error = [origin |-> "TrialHandler._prepareSequence",
                               context |-> "when preparing a sequence of trials",
                               error |-> "unknown method"]]
    /\ UNCHANGED <<handler, loop, mic, iterators>>

\* The constructor up to the first call of util.shuffle, or to its end when
\* there is none.
construct ==
    /\ build.pc = "new"
    /\ LET list == PrepareTrialList(build.arg)
           indices == Indices(list)
           flatSequence == Repeat(indices, build.nReps)
           seeded == [build EXCEPT !.trialList = list, !.drawn = 0]
       IN build' =
            IF build.method = SEQUENTIAL
            THEN [seeded EXCEPT
                    !.pc = "built",
                    !._trialSequence = Arr([r \in 1..build.nReps |-> indices])]
            ELSE IF build.method = RANDOM
            THEN IF build.nReps > 0
                 THEN [seeded EXCEPT !.pc = "shuffling",
                                     !._trialSequence = Arr(<<>>),
                                     !.array = indices,
                                     !.i = Len(indices) - 1]
                 ELSE [seeded EXCEPT !.pc = "built",
                                     !._trialSequence = Arr(<<>>)]
            ELSE IF build.method = FULL_RANDOM
            THEN [seeded EXCEPT !.pc = "shuffling",
                                !.array = flatSequence,
                                !.i = Len(flatSequence) - 1]
            ELSE [seeded EXCEPT
                    !.pc = "threw",
                    !.error = [origin |-> "TrialHandler._prepareSequence",
                               context |-> "when preparing a sequence of trials",
                               error |-> "unknown method"]]
    /\ UNCHANGED <<handler, loop, mic, iterators>>

\* A shuffle that draws from an unseeded generator whatever the seed.
shuffleStepUnseeded ==
    /\ build.pc = "shuffling"
    /\ build.i >= 1
    /\ \E k \in 0..(RngSteps - 1) :
         build' = [build EXCEPT
                     !.array = Swap(build.array, build.i, DrawIndex(k, build.i)),
                     !.i = build.i - 1,
                     !.drawn = build.drawn + 1]
    /\ UNCHANGED <<handler, loop, mic, iterators>>

\* One round of util.shuffle's loop: a number from the handler's generator
\* picks the cell that is swapped with cell i.
shuffleStep ==
    /\ build.pc = "shuffling"
    /\ build.i >= 1
    /\ \E k \in 0..(RngSteps - 1) :
         /\ IF build.seed = Undefined
            THEN TRUE
            ELSE k = SeededDraw(build.seed, build.drawn)
         /\ build' = [build EXCEPT
                        !.array = Swap(build.array, build.i, DrawIndex(k, build.i)),
                        !.i = build.i - 1,
                        !.drawn = build.drawn + 1]
    /\ UNCHANGED <<handler, loop, mic, iterators>>

\* A reshape that cuts row i at i instead of at i * nStim.
shuffleReturnOverlapping ==
    /\ build.pc = "shuffling"
    /\ build.i < 1
    /\ LET stims == Len(build.trialList)
           rows == Append(build._trialSequence.items, build.array)
       IN build' =
            IF build.method = RANDOM
            THEN IF Len(rows) < build.nReps
                 THEN [build EXCEPT !._trialSequence = Arr(rows),
                                    !.array = Indices(build.trialList),
                                    !.i = stims - 1]
                 ELSE [build EXCEPT !.pc = "built", !._trialSequence = Arr(rows)]
            ELSE [build EXCEPT
                    !.pc = "built",
                    !._trialSequence =
                        Arr([r \in 1..build.nReps |->
                               Slice(build.array, r - 1, r - 1 + stims)])]
    /\ UNCHANGED <<handler, loop, mic, iterators>>

\* util.shuffle returns: RANDOM pushes the row and goes on to the next one,
\* FULL_RANDOM cuts the flat sequence into nReps rows of nStim cells.
shuffleReturn ==
    /\ build.pc = "shuffling"
    /\ build.i < 1
    /\ LET stims == Len(build.trialList)
           rows == Append(build._trialSequence.items, build.array)
       IN build' =
            IF build.method = RANDOM
            THEN IF Len(rows) < build.nReps
                 THEN [build EXCEPT !._trialSequence = Arr(rows),
                                    !.array = Indices(build.trialList),
                                    !.i = stims - 1]
                 ELSE [build EXCEPT !.pc = "built", !._trialSequence = Arr(rows)]
            ELSE [build EXCEPT
                    !.pc = "built",
                    !._trialSequence =
                        Arr([r \in 1..build.nReps |->
                               Slice(build.array, (r - 1) * stims, r * stims)])]
    /\ UNCHANGED <<handler, loop, mic, iterators>>

\* A second handler is constructed with the same seed, nReps and method, from
\* a trial list of as many records.
constructAgain ==
    /\ build.pc \in {"built", "threw"}
    /\ build.handlers = 2
    /\ build.first = Null
    /\ \E arg \in BuildInputs :
         /\ Len(PrepareTrialList(arg)) = Len(PrepareTrialList(build.arg))
         /\ build' = NewBuild(arg, build.nReps, build.method, build.seed,
                              build.handlers,
                              [pc |-> build.pc,
                               _trialSequence |-> build._trialSequence,
                               error |-> build.error])
    /\ UNCHANGED <<handler, loop, mic, iterators>>

NextBuild ==
    \/ construct
    \/ shuffleStep
    \/ shuffleReturn
    \/ constructAgain

SpecBuild == InitBuild /\ [][NextBuild]_vars

(* ------------- the cursor and its reads, the trial list argument kept ------------- *)

MaxPeek == 3

\* The arguments getFutureTrial and getTrial are called with.
PeekArgs == (0 - 2)..MaxPeek

\* What a call left behind when it returned a value.
Returned(op, arg, value) ==
    [op |-> op, arg |-> arg, done |-> FALSE, threw |-> FALSE, value |-> value]

\* The fields a call that only reads must leave alone.
readFrame == <<config, nStim, nTotal, cursor, ran, order, thisTrial, _finished,
               _snapshots, attrs, warnings, history>>

\* A handler as the constructor leaves it, its trialList argument remembered.
InitCursor ==
    \E arg \in TrialInputs, reps \in 0..MaxReps, m \in Methods :
      \E draws \in [1..DrawsNeeded(PrepareTrialList(arg), reps, m) -> 0..(RngSteps - 1)] :
        /\ Constructed(arg, reps, m, draws)
        /\ loop = NoLoop
        /\ mic = NoMic
        /\ iterators = NoIterators
        /\ build = [pc |-> "constructed", arg |-> arg]

\* A peek that moves the cursor's index to the trial it returns.
getFutureTrialMoves(n) ==
    /\ result' = Returned("getFutureTrial", n,
                          IF thisIndex + n < 0 \/ n > nRemaining
                          THEN Undefined
                          ELSE At(trialList, thisIndex + n))
    /\ thisIndex' = IF thisIndex + n < 0 \/ n > nRemaining
                    THEN thisIndex
                    ELSE thisIndex + n
    /\ UNCHANGED <<config, nStim, nTotal, nRemaining, thisRepN, thisTrialN, thisN,
                   ran, order, thisTrial, _finished, _snapshots, attrs, warnings,
                   history>>

getFutureTrial(n) ==
    /\ result' = Returned("getFutureTrial", n,
                          IF thisIndex + n < 0 \/ n > nRemaining
                          THEN Undefined
                          ELSE At(trialList, thisIndex + n))
    /\ UNCHANGED readFrame

\* A getTrial whose upper bound leaves nTotal out.
getTrialExclusive(index) ==
    /\ result' = Returned("getTrial", index,
                          IF index < 0 \/ index >= nTotal
                          THEN Undefined
                          ELSE At(trialList, index))
    /\ UNCHANGED readFrame

getTrial(index) ==
    /\ result' = Returned("getTrial", index,
                          IF index < 0 \/ index > nTotal
                          THEN Undefined
                          ELSE At(trialList, index))
    /\ UNCHANGED readFrame

getCurrentTrial ==
    /\ result' = Returned("getCurrentTrial", 0, CurrentTrial)
    /\ UNCHANGED readFrame

getTrialIndex ==
    /\ result' = Returned("getTrialIndex", 0, Num(thisIndex))
    /\ UNCHANGED readFrame

\* getEarlierTrial(n) calls getFutureTrial and abs as free functions; the
\* module binds neither name, so evaluating the call raises a ReferenceError
\* before anything is returned.
getEarlierTrial(n) ==
    /\ result' = [op |-> "getEarlierTrial", arg |-> n, done |-> FALSE,
                  threw |-> TRUE, value |-> Undefined]
    /\ UNCHANGED readFrame

\* A fromSnapshot without its guard: reading snapshot.handler of undefined
\* raises a TypeError.
fromSnapshotUnguarded ==
    /\ result' = Result("fromSnapshot", 0, FALSE, TRUE)
    /\ UNCHANGED readFrame

\* TrialHandler.fromSnapshot(undefined)
fromSnapshotUndefined ==
    /\ result' = Result("fromSnapshot", 0, FALSE, FALSE)
    /\ UNCHANGED readFrame

NextCursor ==
    \/ next /\ UNCHANGED <<loop, beside>>
    \/ getSnapshot /\ UNCHANGED <<loop, beside>>
    \/ fromSnapshotUndefined /\ UNCHANGED <<loop, beside>>
    \/ \E n \in PeekArgs : getFutureTrial(n) /\ UNCHANGED <<loop, beside>>
    \/ \E index \in PeekArgs : getTrial(index) /\ UNCHANGED <<loop, beside>>
    \/ getCurrentTrial /\ UNCHANGED <<loop, beside>>
    \/ getTrialIndex /\ UNCHANGED <<loop, beside>>
    \/ \E n \in PeekArgs : getEarlierTrial(n) /\ UNCHANGED <<loop, beside>>

SpecCursor == InitCursor /\ [][NextCursor]_vars

(* --------------------------------- addData ---------------------------------- *)

MaxData == 2

\* The (key, value) pairs addData is called with.
DataPairs == {[key |-> "rt", value |-> 1], [key |-> "key", value |-> 2]}

\* An attached experiment handler, as the pairs its addData has been handed.
Experiment(data) == [type |-> "experiment", data |-> data]

\* this._experimentHandler after this.addData(key, value): the pair is handed
\* on when a handler is attached, and dropped when there is none.
Forwarded(pair) ==
    IF _experimentHandler = Null
    THEN Null
    ELSE Experiment(Append(_experimentHandler.data, pair))

\* What an addData call left behind.
Added(op, arg, pair, threw) ==
    [op |-> op, arg |-> arg, done |-> FALSE, threw |-> threw,
     key |-> pair.key, value |-> pair.value]

\* The setter of experimentHandler attaches an experiment handler.
setExperimentHandler ==
    /\ _experimentHandler = Null
    /\ _experimentHandler' = Experiment(<<>>)
    /\ result' = Result("setExperimentHandler", 0, FALSE, FALSE)
    /\ UNCHANGED readFrame

\* An addData without its test for an attached experiment handler: calling
\* addData of null raises a TypeError.
addDataUnguarded(pair) ==
    /\ _experimentHandler # Null => Len(_experimentHandler.data) < MaxData
    /\ _experimentHandler' = Forwarded(pair)
    /\ result' = Added("addData", 0, pair, _experimentHandler = Null)
    /\ UNCHANGED readFrame

addData(pair) ==
    /\ _experimentHandler # Null => Len(_experimentHandler.data) < MaxData
    /\ _experimentHandler' = Forwarded(pair)
    /\ result' = Added("addData", 0, pair, FALSE)
    /\ UNCHANGED readFrame

\* The addData of the i-th snapshot: (key, value) => this.addData(key, value).
snapshotAddData(i, pair) ==
    /\ _experimentHandler # Null => Len(_experimentHandler.data) < MaxData
    /\ _experimentHandler' = Forwarded(pair)
    /\ result' = Added("snapshot.addData", i, pair, FALSE)
    /\ UNCHANGED readFrame

NextData ==
    \/ next /\ UNCHANGED <<loop, beside>>
    \/ getSnapshot /\ UNCHANGED <<loop, beside>>
    \/ setExperimentHandler /\ UNCHANGED <<loop, build, mic, iterators>>
    \/ \E pair \in DataPairs : addData(pair) /\ UNCHANGED <<loop, build, mic, iterators>>
    \/ \E i \in 1..Len(_snapshots), pair \in DataPairs :
         snapshotAddData(i, pair) /\ UNCHANGED <<loop, build, mic, iterators>>

SpecData == Init /\ [][NextData]_vars

(* --------------------------------- forEach ---------------------------------- *)

\* forEach(callback) is called and creates its iterator; `from` remembers how
\* many next() calls came before.
forEach ==
    /\ loop.pc = "idle"
    /\ calls < nReps * Len(trialList) + MaxExtra
    /\ loop' = [pc |-> "iterating", from |-> calls, callbacks |-> <<>>]
    /\ UNCHANGED handler

\* A loop that hands the result's value to the callback before it tests done.
forEachNextCallsFirst ==
    /\ loop.pc = "iterating"
    /\ next
    /\ loop' = [loop EXCEPT !.pc = IF result'.done THEN "returned" ELSE @,
                            !.callbacks = Append(@, thisTrial')]

\* One round of forEach's loop: next(), then break when it reports done, the
\* callback on the yielded record otherwise.
forEachNext ==
    /\ loop.pc = "iterating"
    /\ next
    /\ loop' = IF result'.done
               THEN [loop EXCEPT !.pc = "returned"]
               ELSE [loop EXCEPT !.callbacks = Append(@, thisTrial')]

NextForEach ==
    \/ loop.pc = "idle" /\ next /\ UNCHANGED <<loop, beside>>
    \/ forEach /\ UNCHANGED beside
    \/ forEachNext /\ UNCHANGED beside

SpecForEach == Init /\ [][NextForEach]_vars

\* forEach runs to its end without waiting for anything: its loop goes on as
\* long as it can.
SpecForEachFair == SpecForEach /\ WF_vars(forEachNext /\ UNCHANGED beside)

(* ------------------------------- iterators ----------------------------- *)
\* Every object [Symbol.iterator]() returns has one method, next, which works
\* on the handler's own counters. `iterators` counts the objects handed out to
\* the caller and keeps, in call order, the records their next() calls and
\* those of next() and forEach yielded. The callers are 0 for the handler's
\* next(), -1 for forEach's loop and k for the k-th object handed out.

\* Iterators the caller asks for.
MaxIterators == 2

\* The next() call that has just run was made by `by`.
Yielded(by) ==
    iterators' = [iterators EXCEPT
                    !.last = by,
                    !.yields = IF result'.done THEN @ ELSE Append(@, thisTrial')]

\* A [Symbol.iterator]() whose object starts at the first trial.
symbolIteratorRewinds ==
    /\ iterators.made < MaxIterators
    /\ iterators' = [iterators EXCEPT !.made = @ + 1]
    /\ thisTrialN' = -1
    /\ thisN' = -1
    /\ thisRepN' = 0
    /\ nRemaining' = nTotal
    /\ UNCHANGED <<config, nStim, nTotal, thisIndex, ran, order, thisTrial,
                   _finished, _snapshots, attrs, warnings, result, history,
                   _experimentHandler, loop>>

\* [Symbol.iterator](): a new object, no field of the handler is touched.
symbolIterator ==
    /\ iterators.made < MaxIterators
    /\ iterators' = [iterators EXCEPT !.made = @ + 1]
    /\ UNCHANGED <<handler, loop>>

\* next() of the k-th object handed out.
iteratorNext(k) ==
    /\ next
    /\ Yielded(k)
    /\ UNCHANGED loop

\* The handler's next(): a new object's next().
handlerNext ==
    /\ next
    /\ Yielded(0)
    /\ UNCHANGED loop

\* One round of forEach's loop; the callback may call next() on the handler
\* or on any object before the following round.
forEachRound ==
    /\ forEachNext
    /\ Yielded(-1)

NextIterators ==
    \/ symbolIterator /\ UNCHANGED <<build, mic>>
    \/ \E k \in 1..iterators.made : iteratorNext(k) /\ UNCHANGED <<build, _experimentHandler, mic>>
    \/ handlerNext /\ UNCHANGED <<build, _experimentHandler, mic>>
    \/ forEach /\ UNCHANGED <<build, mic, iterators>>
    \/ forEachRound /\ UNCHANGED <<build, _experimentHandler, mic>>

SpecIterators == Init /\ [][NextIterators]_vars

(* ----------------------------- the Microphone -------------------------- *)
\* sound/Microphone.js. `mic` holds the Microphone's fields (status,
\* _recorder, _audioBuffer as its length, the callbacks that have been set),
\* every MediaRecorder made so far with its state, the events the recorders
\* have queued and not yet fired, the getUserMedia calls not yet answered,
\* and the last call with the requests it sent. _recorder is 0 for null and
\* otherwise the position of the recorder in `recorders`.

\* Calls of _onChange that are followed.
MaxChanges == 1

\* Recorder events in flight.
MaxEvents == 2

\* Chunks of audio data the buffer holds.
MaxChunks == 1

NOT_STARTED == "NOT_STARTED"

STARTED == "STARTED"

PAUSED == "PAUSED"

ERROR == "ERROR"

Last(op, requests, threw) == [op |-> op, requests |-> requests, threw |-> threw]

Event(on, type) == [on |-> on, type |-> type]

\* this._recorder.<request>() raises: it is null, or the MediaRecorder is in
\* a state that does not take the request.
Rejects(m, request) ==
    \/ m._recorder = 0
    \/ request = "start" /\ m.recorders[m._recorder] # "inactive"
    \/ request \in {"pause", "resume", "requestData"}
         /\ m.recorders[m._recorder] = "inactive"

\* The state a MediaRecorder is in after a request it takes.
After(state, request) ==
    CASE request = "start" -> "recording"
      [] request = "stop" -> "inactive"
      [] request = "pause" -> "paused"
      [] request = "resume" -> "recording"
      [] request = "requestData" -> state

\* The events a MediaRecorder queues for a request it takes.
Fired(on, state, request) ==
    CASE request = "start" -> <<Event(on, "start")>>
      [] request = "stop" ->
           IF state = "inactive" THEN <<>>
           ELSE <<Event(on, "dataavailable"), Event(on, "stop")>>
      [] request = "pause" ->
           IF state = "paused" THEN <<>> ELSE <<Event(on, "pause")>>
      [] request = "resume" ->
           IF state = "recording" THEN <<>> ELSE <<Event(on, "resume")>>
      [] request = "requestData" -> <<Event(on, "dataavailable")>>

\* this._recorder.<request>() on a recorder that takes it, and the callbacks
\* the returned promise sets.
Sent(m, op, request, callback) ==
    [m EXCEPT !.recorders[m._recorder] = After(@, request),
              !.events = @ \o Fired(m._recorder, m.recorders[m._recorder], request),
              !.callbacks = @ \cup {callback, "_errorCallback"},
              !.last = Last(op, <<[on |-> m._recorder, request |-> request]>>, FALSE)]

\* The call did nothing.
Nothing(m, op) == [m EXCEPT !.last = Last(op, <<>>, FALSE)]

\* The call raised without touching a field.
Raised(m, op) == [m EXCEPT !.last = Last(op, <<>>, TRUE)]

\* The synchronous part of _prepareRecording, up to its await.
Prepared(m) ==
    [m EXCEPT !._audioBuffer = 0, !._recorder = 0, !.pending = @ + 1]

\* The Microphone the constructor leaves behind: its _prepareRecording call
\* is waiting for getUserMedia.
NewMic ==
    Prepared([status |-> NOT_STARTED, _recorder |-> 0, recorders |-> <<>>,
              events |-> <<>>, pending |-> 0, _audioBuffer |-> 0,
              callbacks |-> {}, restart |-> "no",
              last |-> Last("constructor", <<>>, FALSE)])

\* A resume that does not look at the status.
ResumedAnyStatus(m, clear, op) ==
    IF m._recorder = 0 THEN Raised(m, op)
    ELSE LET cleared == IF clear THEN [m EXCEPT !._audioBuffer = 0] ELSE m
         IN  IF Rejects(m, "resume") THEN Raised(cleared, op)
             ELSE Sent(cleared, op, "resume", "_resumeCallback")

\* resume({clear}), called as `op`. The catch block's first statement reads
\* `self`, which is declared inside the try block: it raises before the
\* status is set to ERROR.
Resumed(m, clear, op) ==
    IF m.status = PAUSED
    THEN IF m._recorder = 0 THEN Raised(m, op)
         ELSE LET cleared == IF clear THEN [m EXCEPT !._audioBuffer = 0] ELSE m
              IN  IF Rejects(m, "resume") THEN Raised(cleared, op)
                  ELSE Sent(cleared, op, "resume", "_resumeCallback")
    ELSE Nothing(m, op)

\* start(), called as `op`.
Started(m, op) ==
    IF m.status = PAUSED THEN Resumed(m, TRUE, op)
    ELSE IF m.status # STARTED
    THEN IF Rejects(m, "start")
         THEN [m EXCEPT !.status = ERROR, !.last = Last(op, <<>>, TRUE)]
         ELSE Sent(m, op, "start", "_startCallback")
    ELSE Nothing(m, op)

\* stop(), called as `op`: nothing catches what this._recorder.stop() raises
\* on a null recorder.
Stopped(m, op) ==
    IF m.status \in {STARTED, PAUSED}
    THEN IF Rejects(m, "stop") THEN Raised(m, op)
         ELSE Sent(m, op, "stop", "_stopCallback")
    ELSE Nothing(m, op)

\* A pause() that sets the status itself once the request is sent.
PausedSetsStatus(m, op) ==
    IF m.status = STARTED
    THEN IF Rejects(m, "pause") THEN Raised(m, op)
         ELSE [Sent(m, op, "pause", "_pauseCallback") EXCEPT !.status = PAUSED]
    ELSE Nothing(m, op)

\* pause(): its catch block raises on `self` as resume's does.
Paused(m, op) ==
    IF m.status = STARTED
    THEN IF Rejects(m, "pause") THEN Raised(m, op)
         ELSE Sent(m, op, "pause", "_pauseCallback")
    ELSE Nothing(m, op)

\* flush().
Flushed(m, op) ==
    IF m.status \in {STARTED, PAUSED}
    THEN IF Rejects(m, "requestData") THEN Raised(m, op)
         ELSE Sent(m, op, "requestData", "_dataAvailableCallback")
    ELSE Nothing(m, op)

\* _onChange(): stop() if STARTED, then _prepareRecording() up to its await,
\* then start(). Nothing of it runs after a call that raises.
Changed(m) ==
    LET s == IF m.status = STARTED THEN Stopped(m, "_onChange") ELSE Nothing(m, "_onChange")
        t == Started(Prepared(s), "_onChange")
    IN  IF s.last.threw THEN s
        ELSE [t EXCEPT !.last = Last("_onChange", s.last.requests \o t.last.requests,
                                     t.last.threw),
                       !.restart = IF m.status = STARTED THEN "stopping" ELSE @]

\* The dataavailable events in flight.
RECURSIVE Data(_)
Data(events) ==
    IF events = <<>> THEN 0
    ELSE (IF Head(events).type = "dataavailable" THEN 1 ELSE 0) + Data(Tail(events))

\* The events in flight and the audio buffer stay within the bounds.
Bounded(m) ==
    /\ Len(m.events) <= MaxEvents
    /\ m._audioBuffer + Data(m.events) <= MaxChunks

start ==
    /\ Bounded(Started(mic, "start"))
    /\ mic' = Started(mic, "start")

stop ==
    /\ Bounded(Stopped(mic, "stop"))
    /\ mic' = Stopped(mic, "stop")

pause ==
    /\ Bounded(Paused(mic, "pause"))
    /\ mic' = Paused(mic, "pause")

resume(clear) ==
    /\ Bounded(Resumed(mic, clear, "resume"))
    /\ mic' = Resumed(mic, clear, "resume")

flush ==
    /\ Bounded(Flushed(mic, "flush"))
    /\ mic' = Flushed(mic, "flush")

_onChange ==
    /\ Len(mic.recorders) + mic.pending <= MaxChanges
    /\ Bounded(Changed(mic))
    /\ mic' = Changed(mic)

\* getUserMedia answers with a stream: _prepareRecording goes on behind its
\* await and makes the recorder.
getUserMediaResolves ==
    /\ mic.pending > 0
    /\ mic' = [mic EXCEPT !.pending = @ - 1,
                          !.recorders = Append(@, "inactive"),
                          !._recorder = Len(mic.recorders) + 1,
                          !.last = Last("getUserMedia", <<>>, FALSE)]

\* getUserMedia is refused: _prepareRecording ends at its await.
getUserMediaRejects ==
    /\ mic.pending > 0
    /\ mic' = [mic EXCEPT !.pending = @ - 1,
                          !.last = Last("getUserMedia", <<>>, TRUE)]

\* The oldest event in flight fires: onstart, onpause, onresume,
\* ondataavailable or onstop of the recorder it belongs to.
recorderEvent ==
    /\ mic.events # <<>>
    /\ LET type == Head(mic.events).type
       IN  mic' = [mic EXCEPT
             !.events = Tail(@),
             !._audioBuffer = CASE type = "start" -> 0
                                [] type = "dataavailable" -> @ + 1
                                [] OTHER -> @,
             !.status = CASE type \in {"start", "resume"} -> STARTED
                          [] type = "pause" -> PAUSED
                          [] type = "stop" -> NOT_STARTED
                          [] OTHER -> @,
             !.restart = CASE type \in {"start", "resume"} -> "no"
                           [] type = "stop" /\ @ = "stopping" -> "stopped"
                           [] OTHER -> @,
             !.last = Last("on" \o type, <<>>, FALSE)]

\* The TrialHandler's variables while the Microphone is followed.
InitMic ==
    /\ NoHandler
    /\ build = NoBuild
    /\ mic = NewMic
    /\ iterators = NoIterators

NextMic ==
    \/ start /\ UNCHANGED <<handler, loop, build, iterators>>
    \/ stop /\ UNCHANGED <<handler, loop, build, iterators>>
    \/ pause /\ UNCHANGED <<handler, loop, build, iterators>>
    \/ \E clear \in BOOLEAN : resume(clear) /\ UNCHANGED <<handler, loop, build, iterators>>
    \/ flush /\ UNCHANGED <<handler, loop, build, iterators>>
    \/ _onChange /\ UNCHANGED <<handler, loop, build, iterators>>
    \/ getUserMediaResolves /\ UNCHANGED <<handler, loop, build, iterators>>
    \/ getUserMediaRejects /\ UNCHANGED <<handler, loop, build, iterators>>
    \/ recorderEvent /\ UNCHANGED <<handler, loop, build, iterators>>

SpecMic == InitMic /\ [][NextMic]_vars

\* The browser answers getUserMedia and fires every event a recorder queued.
SpecMicFair ==
    /\ SpecMic
    /\ WF_vars(recorderEvent /\ UNCHANGED <<handler, loop, build, iterators>>)
    /\ WF_vars((getUserMediaResolves \/ getUserMediaRejects)
                 /\ UNCHANGED <<handler, loop, build, iterators>>)

(* ------------------------------- claims ------------------------------- *)

\* The ordering read row by row: its c-th cell (from 1) is the index the c-th
\* next() of a run is due to yield.
RECURSIVE Flatten(_)
Flatten(rows) ==
    IF rows = <<>> THEN <<>> ELSE Head(rows) \o Flatten(Tail(rows))

\* The names of getSnapshot's exclusion list.
ReservedNames == {excludedAttributes[i] : i \in 1..Len(excludedAttributes)}

\* C1: with SEQUENTIAL and nReps > 0, the c-th next() of a freshly built
\* handler yields the trial at index (c - 1) mod nStim, for c up to
\* nReps * nStim, and the next() after the last one reports done.
C1_SequentialOrder ==
    (method = SEQUENTIAL /\ nReps > 0 /\ fresh /\ result.op = "next") =>
        IF calls <= nReps * nStim
        THEN /\ ~result.done
             /\ thisIndex = (calls - 1) % nStim
             /\ thisTrial = At(trialList, (calls - 1) % nStim)
        ELSE result.done

\* C1 witness: two repetitions of two trials were yielded in order and the
\* fifth next() reported done.
C1_Witness ==
    /\ method = SEQUENTIAL /\ fresh /\ result.op = "next"
    /\ nReps = 2 /\ nStim = 2 /\ calls = 5 /\ result.done

\* C2: on a freshly built handler nRemaining is nReps * nStim less the number
\* of next() calls so far (one less per call, 0 after nReps * nStim calls), and
\* a next() reports done exactly when it is a call after the nReps * nStim-th.
C2_RemainingCountsDown ==
    fresh =>
        /\ nRemaining = nReps * nStim - calls
        /\ result.op = "next" => (result.done <=> calls > nReps * nStim)

\* C2 witness: the second next() beyond the end of a non-empty run reported
\* done again.
C2_Witness ==
    /\ fresh /\ result.op = "next" /\ result.done
    /\ nReps * nStim > 0 /\ calls = nReps * nStim + 2

\* C3: a next() that follows a next() that reported done reports done and
\* leaves thisRepN, thisTrialN, thisN, nRemaining and thisIndex unchanged.
C3_ExhaustedNextIsNoOp ==
    [][(result.op = "next" /\ result.done /\ next) =>
           (result'.done /\ UNCHANGED cursor)]_vars

C5_CaptureRestoreIsNoOp ==
    [][(result.op = "getSnapshot" /\ fromSnapshot(result.arg)) =>
           UNCHANGED <<nRemaining, thisRepN, thisTrialN, thisN, thisIndex, ran,
                       _finished, thisTrial>>]_vars

\* C6: after fromSnapshot(s) the handler's nStim, nTotal, nRemaining, thisRepN,
\* thisTrialN, thisN, thisIndex, ran and finished flag are those the handler
\* had when s was captured, and thisTrial is trialList[s.thisIndex].
C6_RestoreWritesCaptured ==
    result.op = "fromSnapshot" =>
        /\ [nStim |-> nStim, nTotal |-> nTotal, nRemaining |-> nRemaining,
            thisRepN |-> thisRepN, thisTrialN |-> thisTrialN, thisN |-> thisN,
            thisIndex |-> thisIndex, ran |-> ran, finished |-> _finished]
               = captured[result.arg]
        /\ thisTrial = At(trialList, _snapshots[result.arg].thisIndex)

\* C7: after a restore from a snapshot captured after k <= nReps * nStim
\* next() calls, the j-th next() since yields cell k + j of the ordering, and
\* reports done once k + j is beyond the ordering.
C7_ResumeAtCapturedPosition ==
    (~fresh /\ result.op = "next") =>
        IF calls <= nReps * Len(trialList)
        THEN /\ ~result.done
             /\ thisIndex = Flatten(_trialSequence)[calls]
             /\ thisTrial = At(trialList, thisIndex)
        ELSE result.done

\* C8: when the current trial has a field named in getSnapshot's exclusion
\* list, getSnapshot warns about it, does not list it in trialAttributes, and
\* the snapshot's property of that name is the handler's counter.
C8_ReservedFieldDropped ==
    result.op = "getSnapshot" =>
        \A a \in AttributesOf(CurrentTrial) \cap ReservedNames :
            /\ a \in warnings
            /\ a \notin _snapshots[result.arg].trialAttributes
            /\ _snapshots[result.arg][a] = captured[result.arg][a]

C10_NextKeepsFinished ==
    [][/\ next => UNCHANGED _finished
       /\ _finished' # _finished => result'.op \in {"setFinished", "fromSnapshot"}]_vars

\* C10 witness: next() reported done with the flag, set before, still true.
C10_Witness ==
    /\ result.op = "next" /\ result.done /\ _finished = Bool(TRUE)

\* A row that holds each of 0 .. n-1 exactly once.
IsPermutation(row, n) ==
    /\ Len(row) = n
    /\ {row[c] : c \in 1..Len(row)} = 0..(n - 1)

\* C11: under RANDOM every row of the ordering, taken alone, holds each index
\* of the trial list exactly once, whatever numbers the random source yields.
C11_RandomRowsArePermutations ==
    (build.pc \in {"shuffling", "built"} /\ build.method = RANDOM) =>
        \A r \in 1..Len(build._trialSequence.items) :
            IsPermutation(build._trialSequence.items[r], Len(build.trialList))

\* Two shuffled rows of three, different from each other and from 0, 1, 2.
C11_Witness ==
    /\ build.pc = "built"
    /\ build.method = RANDOM
    /\ build.seed = Undefined
    /\ build._trialSequence.items = <<(<<2, 0, 1>>), (<<1, 2, 0>>)>>

\* How many cells of a sequence hold x.
Count(seq, x) == Cardinality({c \in 1..Len(seq) : seq[c] = x})

\* C12: under FULL_RANDOM the cells of the whole ordering hold every index of
\* the trial list exactly nReps times; a single row need not hold each index
\* once (the witness has a row with one index twice and another not at all).
C12_FullRandomKeepsMultiset ==
    (build.pc = "built" /\ build.method = FULL_RANDOM) =>
        LET cells == Flatten(build._trialSequence.items)
        IN  /\ Len(cells) = build.nReps * Len(build.trialList)
            /\ \A x \in 0..(Len(build.trialList) - 1) :
                 Count(cells, x) = build.nReps

\* A first row with index 0 twice and index 2 missing.
C12_Witness ==
    /\ build.pc = "built"
    /\ build.method = FULL_RANDOM
    /\ build.nReps = 2
    /\ build._trialSequence.items[1] = <<0, 0, 1>>

C14_UnknownMethodThrows ==
    (build.pc # "new" /\ build.method \notin Methods) =>
        /\ build.pc = "threw"
        /\ build.error = [origin |-> "TrialHandler._prepareSequence",
                          context |-> "when preparing a sequence of trials",
                          error |-> "unknown method"]
        /\ build._trialSequence = Undefined

\* A constructor call with an unknown method, three records and two
\* repetitions, after it threw.
C14_Witness ==
    /\ build.pc = "threw"
    /\ build.method = UnknownMethod
    /\ build.nReps = 2
    /\ Len(build.trialList) = 3

RunRecords ==
    [c \in 1..Len(Flatten(_trialSequence)) |->
        At(trialList, Flatten(_trialSequence)[c])]

\* C16: a forEach call returns, and by then it has invoked the callback once
\* per record of the run that was still to come when it was called, in the
\* ordering's row-major order: nReps * nStim times on a fresh handler, for
\* every method.
C16_ForEachVisitsAll ==
    /\ [](loop.pc = "returned" =>
            /\ loop.callbacks = SubSeq(RunRecords, loop.from + 1, Len(RunRecords))
            /\ loop.from = 0 => Len(loop.callbacks) = nReps * nStim)
    /\ (loop.pc = "iterating" ~> loop.pc = "returned")

\* A forEach on a fresh RANDOM handler of two records and two repetitions
\* after it returned, its ordering not the sequential one.
C16_Witness ==
    /\ loop.pc = "returned"
    /\ loop.from = 0
    /\ method = RANDOM
    /\ _trialSequence = <<(<<1, 0>>), (<<0, 1>>)>>
    /\ loop.callbacks = <<TrialB, TrialA, TrialA, TrialB>>

\* C17: fromSnapshot(undefined) returns without raising and leaves every field
\* of the handler as it was: the counters, thisTrial, the finished flag, the
\* snapshots and the properties restores have added.
C17_UndefinedRestoreIsNoOp ==
    [][(result'.op = "fromSnapshot" /\ result'.arg = 0) =>
         /\ ~result'.threw
         /\ UNCHANGED <<trialList, nReps, method, _trialSequence, nStim, nTotal,
                        nRemaining, thisRepN, thisTrialN, thisN, thisIndex, ran,
                        order, thisTrial, _finished, _snapshots, attrs>>]_vars

\* fromSnapshot(undefined) called in mid-run on a handler that has a snapshot.
C17_Witness ==
    /\ result = Result("fromSnapshot", 0, FALSE, FALSE)
    /\ Len(_snapshots) = 1
    /\ calls = 2
    /\ nRemaining = 2

\* C18: for 1 <= n <= nRemaining, getFutureTrial(n) returns the record the
\* n-th next() from here will yield, and undefined for an n beyond the last
\* trial of the run.
C18_PeekIsFutureTrial ==
    result.op = "getFutureTrial" =>
        /\ (1 <= result.arg /\ result.arg <= nRemaining) =>
              result.value = RunRecords[calls + result.arg]
        /\ (1 <= result.arg /\ result.arg > nRemaining) =>
              result.value = Undefined

\* C19: getFutureTrial(n) never raises; it returns undefined whenever
\* thisIndex + n is outside 0 .. nTotal-1 or n is larger than nRemaining, and
\* the record at thisIndex + n of the trial list otherwise.
C19_PeekIsBounded ==
    result.op = "getFutureTrial" =>
        /\ ~result.threw
        /\ result.value =
             IF \/ thisIndex + result.arg \notin 0..(nTotal - 1)
                \/ result.arg > nRemaining
             THEN Undefined
             ELSE At(trialList, thisIndex + result.arg)

\* The calls that only read.
ReadOps == {"getFutureTrial", "getTrial", "getCurrentTrial", "getTrialIndex"}

\* C20: getFutureTrial, getTrial, getCurrentTrial and getTrialIndex change
\* none of thisRepN, thisTrialN, thisN, nRemaining, thisIndex, thisTrial, ran,
\* order and the finished flag, and however they are mixed with next() calls,
\* the c-th next() still yields the c-th record of the run.
C20_ReadsChangeNothing ==
    /\ [][result'.op \in ReadOps =>
            UNCHANGED <<thisRepN, thisTrialN, thisN, nRemaining, thisIndex,
                        thisTrial, ran, order, _finished>>]_vars
    /\ []((result.op = "next" /\ ~result.done) => thisTrial = RunRecords[calls])

\* A peek in mid-run that returned a record.
C20_Witness ==
    /\ result = Returned("getFutureTrial", 1, TrialB)
    /\ calls = 2
    /\ thisTrial = TrialA
    /\ nRemaining = 2

Abs(n) == IF n < 0 THEN 0 - n ELSE n

\* C22: getEarlierTrial(n) never raises and returns what getFutureTrial(-|n|)
\* returns in the same state: the record |n| places back in the trial list, or
\* undefined before its first entry.
C22_EarlierIsNegatedPeek ==
    result.op = "getEarlierTrial" =>
        /\ ~result.threw
        /\ result.value =
             IF \/ thisIndex - Abs(result.arg) < 0
                \/ 0 - Abs(result.arg) > nRemaining
             THEN Undefined
             ELSE At(trialList, thisIndex - Abs(result.arg))

\* C23: no call changes the trial list or the ordering: after any sequence of
\* next, getSnapshot, fromSnapshot and finished-setter calls both hold the
\* values the constructor left.
C23_ListAndOrderingNeverChange ==
    [][UNCHANGED <<trialList, _trialSequence>>]_vars

\* C24: for SEQUENTIAL, RANDOM and FULL_RANDOM the ordering the constructor
\* leaves has exactly nReps rows, every row has exactly nStim cells, and every
\* cell is an integer from 0 to nStim - 1.
C24_OrderingShape ==
    build.pc = "built" =>
        /\ Len(build._trialSequence.items) = build.nReps
        /\ \A r \in 1..Len(build._trialSequence.items) :
             /\ Len(build._trialSequence.items[r]) = Len(build.trialList)
             /\ \A c \in 1..Len(build._trialSequence.items[r]) :
                  build._trialSequence.items[r][c] \in 0..(Len(build.trialList) - 1)

\* A FULL_RANDOM ordering of two rows of three cells.
C24_Witness ==
    /\ build.pc = "built"
    /\ build.method = FULL_RANDOM
    /\ build._trialSequence.items = <<(<<0, 1, 0>>), (<<2, 1, 2>>)>>

\* C25: addData(key, value), called on the handler or on one of its snapshots,
\* never raises and changes no field of the cursor; with an experiment handler
\* attached it hands that handler exactly the one pair (key, value), and
\* without one it does nothing.
C25_AddDataForwardsOnePair ==
    [][result'.op \in {"addData", "snapshot.addData"} =>
         /\ ~result'.threw
         /\ UNCHANGED <<trialList, _trialSequence, nStim, nTotal, nRemaining,
                        thisRepN, thisTrialN, thisN, thisIndex, ran, order,
                        thisTrial, _finished, _snapshots>>
         /\ _experimentHandler' =
              IF _experimentHandler = Null
              THEN Null
              ELSE Experiment(Append(_experimentHandler.data,
                                     [key |-> result'.key, value |-> result'.value]))]_vars

\* Two pairs handed on in mid-run, the first through the handler and the
\* second through a snapshot.
C25_Witness ==
    /\ _experimentHandler = Experiment(<<[key |-> "rt", value |-> 1],
                                         [key |-> "key", value |-> 2]>>)
    /\ result.op = "snapshot.addData"
    /\ calls = 2

\* C26: resume() outside PAUSED has no effect: it sends no request to the
\* recorder and leaves the status, the recorder, the audio buffer, the
\* callbacks and the events in flight as they were.
C26_ResumeOutsidePausedIsNoOp ==
    [][(mic.status # PAUSED /\ mic'.last.op = "resume") =>
         mic' = [mic EXCEPT !.last = Last("resume", <<>>, FALSE)]]_vars

\* resume() has returned on a Microphone whose recorder is already paused
\* while the status still shows STARTED.
C26_Witness ==
    /\ mic.status = STARTED
    /\ mic.last = Last("resume", <<>>, FALSE)
    /\ mic._recorder # 0
    /\ mic.recorders[mic._recorder] = "paused"

\* C27: after _onChange was called while the status was STARTED, once the
\* stop event has fired and the new recorder has been made, the status
\* eventually becomes STARTED again.
C27_ChangeRestarts ==
    (mic.restart = "stopped" /\ mic._recorder # 0) ~> (mic.status = STARTED)

\* C28: after a next() that yields a trial, thisRepN is in 0..nReps-1 and
\* thisTrialN in 0..nStim-1, thisIndex is the ordering's cell at
\* [thisRepN][thisTrialN], thisTrial is trialList[thisIndex], which is what
\* getCurrentTrial() returns, ran is 1 and order is thisN; in a run from
\* construction the c-th yield is the c-th cell of the ordering read row by
\* row.
C28_YieldIsOrderingCell ==
    (result.op = "next" /\ ~result.done) =>
       /\ 0 <= thisRepN /\ thisRepN < nReps
       /\ 0 <= thisTrialN /\ thisTrialN < nStim
       /\ thisIndex = At(At(_trialSequence, thisRepN), thisTrialN)
       /\ thisTrial = At(trialList, thisIndex)
       /\ thisTrial = CurrentTrial
       /\ ran = 1
       /\ order = thisN
       /\ fresh => /\ calls <= Len(Flatten(_trialSequence))
                   /\ thisIndex = Flatten(_trialSequence)[calls]

\* The first trial of the second repetition of a shuffled ordering has been
\* yielded.
C28_Witness ==
    /\ result.op = "next"
    /\ ~result.done
    /\ fresh
    /\ method # SEQUENTIAL
    /\ nStim = 2
    /\ thisRepN = 1
    /\ thisTrialN = 0
    /\ _trialSequence[1] # _trialSequence[2]

\* C29: a handler constructed from an undefined or empty trial list holds the
\* list [undefined], so nStim = 1 and nTotal = nReps; its first nReps next()
\* calls yield an undefined record with done = false, and every later one
\* reports done.
C29_EmptyListIsOneUndefinedTrial ==
    build.arg \in {Undefined, Arr(<<>>)} =>
       /\ trialList = <<Undefined>>
       /\ nStim = 1
       /\ nTotal = nReps
       /\ result.op = "next" =>
            /\ result.done <=> calls > nReps
            /\ ~result.done => thisTrial = Undefined

\* The third next() on a handler built from an empty array with two
\* repetitions has reported done.
C29_Witness ==
    /\ build.arg = Arr(<<>>)
    /\ nReps = 2
    /\ result.op = "next"
    /\ result.done
    /\ calls = 3

\* What getTrial(index) returns in the current state.
GetTrial(index) ==
    IF index < 0 \/ index > nTotal THEN Undefined ELSE At(trialList, index)

\* What a snapshot's getCurrentTrial() returns in the current state: the
\* closure () => this.getTrial(currentIndex).
SnapshotGetCurrentTrial(snapshot) ==
    GetTrial(snapshot.getCurrentTrial.currentIndex)

\* What a snapshot's getTrial(index) returns in the current state: the
\* closure (index = 0) => this.getTrial(index).
SnapshotGetTrial(snapshot, index) == GetTrial(index)

\* C30: from its capture on, a snapshot's getCurrentTrial() returns the record
\* that was current when it was captured, whatever next(), getSnapshot() or
\* fromSnapshot() did since; a snapshot's getTrial(i) returns what the
\* handler's getTrial(i) returns.
C30_SnapshotKeepsItsTrial ==
    [][\A i \in 1..Len(_snapshots') :
         /\ i <= Len(_snapshots) =>
              SnapshotGetCurrentTrial(_snapshots[i])' =
                  SnapshotGetCurrentTrial(_snapshots[i])
         /\ i > Len(_snapshots) =>
              SnapshotGetCurrentTrial(_snapshots[i])' = CurrentTrial
         /\ \A index \in PeekArgs :
              SnapshotGetTrial(_snapshots[i], index)' = GetTrial(index)']_vars

\* C31: start() while the status is PAUSED empties the audio buffer and sends
\* one resume request, and no start request, to the recorder without raising;
\* the resume event then sets the status to STARTED; start() while the status
\* is STARTED sends no request and changes nothing.
C31_StartWhilePausedResumes ==
    [][/\ (mic'.last.op = "start" /\ mic.status = PAUSED) =>
            /\ mic'._audioBuffer = 0
            /\ mic'.last.requests = <<[on |-> mic._recorder, request |-> "resume"]>>
            /\ ~mic'.last.threw
            /\ mic' = Resumed(mic, TRUE, "start")
       /\ (mic'.last.op = "start" /\ mic.status = STARTED) =>
            mic' = Nothing(mic, "start")
       /\ mic'.last.op = "onresume" => mic'.status = STARTED]_vars

\* No record of the trial list has a field named like one of the names
\* getSnapshot reserves.
NoReservedFields ==
    \A i \in 1..Len(trialList) : AttributesOf(trialList[i]) \cap ReservedNames = {}

\* C32: with trial records that have no field of a reserved name, every state
\* reached through next(), getSnapshot() and fromSnapshot(), from construction
\* to beyond exhaustion, has thisN = thisRepN * nStim + thisTrialN.
C32_CountersAgree ==
    NoReservedFields => thisN = thisRepN * nStim + thisTrialN

\* A handler of two records per repetition has been restored from a snapshot
\* and has since advanced into its second repetition.
C32_Witness ==
    /\ NoReservedFields
    /\ ~fresh
    /\ result.op = "next"
    /\ nStim = 2
    /\ thisRepN = 1
    /\ thisTrialN = 1
    /\ thisN = 3

\* C33: every snapshot getSnapshot returned carries a trialAttributes list,
\* and fromSnapshot applied to it returns without raising, whatever the
\* current record was at the capture and wherever the cursor is now.
C33_RestoreNeverRaises ==
    /\ \A i \in 1..Len(_snapshots) : "trialAttributes" \in DOMAIN _snapshots[i]
    /\ result.op = "fromSnapshot" => ~result.threw

\* C34: whatever object each next() call is made on (the handler, an object
\* [Symbol.iterator]() returned, forEach's loop), the records yielded, in call
\* order, are the ordering read row by row, each cell once and none skipped,
\* and a call reports done exactly when nReps * nStim records have been
\* yielded before it.
C34_IteratorsShareCursor ==
    /\ Len(iterators.yields) = (IF calls < nTotal THEN calls ELSE nTotal)
    /\ \A c \in 1..Len(iterators.yields) :
         iterators.yields[c] = At(trialList, Flatten(_trialSequence)[c])
    /\ result.op = "next" => (result.done <=> calls > nTotal)

\* Two objects, the handler's next() and a forEach loop have shared the four
\* trials of a run, and the second object's next() has reported done after
\* forEach returned.
C34_Witness ==
    /\ iterators.made = 2
    /\ nTotal = 4
    /\ Len(iterators.yields) = 4
    /\ loop.pc = "returned"
    /\ Len(loop.callbacks) = 1
    /\ iterators.last = 2
    /\ result.done
    /\ calls = 6

\* C35: after the finished setter has run, every snapshot returned so far
\* holds the value it was given, as the handler does; and as long as only
\* next(), getSnapshot() and the setter have been called, every snapshot's
\* finished equals the handler's.
C35_SnapshotsFollowSetter ==
    (result.op = "setFinished" \/ fresh) =>
        \A i \in 1..Len(_snapshots) : _snapshots[i].finished = _finished

\* C36: the advance that reports exhausted sets thisTrial to null and leaves
\* thisIndex where the last yield put it, so the record getCurrentTrial()
\* reads there is the one thisTrial held before (the last yielded record) and
\* is not thisTrial; a getCurrentTrial() called after exhaustion returns the
\* last record of the sequence, not null.
C36_ExhaustionKeepsIndex ==
    [][ /\ (result'.op = "next" /\ ~result'.done) =>
               thisTrial' = At(trialList, thisIndex')
        /\ (result'.op = "next" /\ result'.done) =>
               /\ thisTrial' = Null
               /\ thisIndex' = thisIndex
               /\ CurrentTrial' # thisTrial'
               /\ thisTrial # Null => CurrentTrial' = thisTrial
        /\ (result'.op = "getCurrentTrial" /\ calls > nTotal /\ nTotal > 0) =>
               /\ thisTrial = Null
               /\ result'.value = At(trialList, Flatten(_trialSequence)[nTotal])
               /\ result'.value # thisTrial ]_vars

C36_Witness ==
    /\ result.op = "getCurrentTrial"
    /\ calls > nTotal
    /\ nTotal = 4
    /\ thisTrial = Null
    /\ thisIndex = 1
    /\ result.value = TrialB

\* The request methods of the Microphone.
RequestMethods == {"start", "pause", "resume", "stop", "flush"}

\* C37: the status turns STARTED only in onstart or onresume, PAUSED only in
\* onpause and NOT_STARTED only in onstop; start, pause, resume, stop and
\* flush leave the status as it was unless the call raised and set ERROR, and
\* a call that sent its request to the recorder leaves the status as it was
\* and the event in flight.
C37_StatusChangesInCallbacks ==
    [][ /\ (mic'.status # mic.status /\ mic'.status = STARTED) =>
               mic'.last.op \in {"onstart", "onresume"}
        /\ (mic'.status # mic.status /\ mic'.status = PAUSED) =>
               mic'.last.op = "onpause"
        /\ (mic'.status # mic.status /\ mic'.status = NOT_STARTED) =>
               mic'.last.op = "onstop"
        /\ (mic'.last.op \in RequestMethods /\ mic'.status # mic.status) =>
               (mic'.status = ERROR /\ mic'.last.threw)
        /\ (mic'.last.op \in RequestMethods /\ mic'.last.requests # <<>>
              /\ mic' # mic) =>
               /\ mic'.status = mic.status
               /\ Len(mic'.last.requests) = 1
               /\ mic'.events =
                    mic.events \o Fired(mic._recorder, mic.recorders[mic._recorder],
                                        mic'.last.requests[1].request) ]_vars

\* A pause request has been sent and its event has not fired: the status
\* still reads STARTED while the recorder is paused.
C37_Witness ==
    /\ mic.last.op = "pause"
    /\ mic.last.requests # <<>>
    /\ mic.status = STARTED
    /\ mic._recorder # 0
    /\ mic.recorders[mic._recorder] = "paused"
    /\ \E e \in 1..Len(mic.events) : mic.events[e] = Event(mic._recorder, "pause")

=============================================================================
